---- MODULE Spec2Model ----
(***************************************************************************)
(* YFOptimizer (src/main.py): the YellowFin tuner on top of momentum SGD.  *)
(*                                                                         *)
(* Floating-point numbers are modelled as fixed-point integers: the        *)
(* integer v stands for the real v / Scale, and every product and quotient *)
(* rounds down to a multiple of 1 / Scale, as a float operation rounds to  *)
(* its precision.  A non-finite float (nan, inf) is the token NaN, which   *)
(* every operation propagates.  A gradient is a one-element tensor, so its *)
(* L2 norm is its absolute value.                                          *)
(***************************************************************************)
EXTENDS Integers, Sequences, FiniteSets, TLC

\* ------------------------------------------------------------------ bounds
\* fixed-point resolution: v stands for v / Scale
Scale == 16
\* update calls explored (calls that raise included)
MaxCalls == 3
\* the constructor's curv_win_width argument ranges over 1..MaxWinArg and the default
MaxWinArg == 2

\* ------------------------------------------------------- program constants
\* self.curv_win_width = 20 (the constructor argument is not stored)
curv_win_width == 20
\* the default of the constructor argument curv_win_width
DefaultWinArg == 20
\* np.imag(roots) < 1e-5: the tolerance is 1 / ImagTolInv
ImagTolInv == 100000

\* ------------------------------------------------------------- input sets
\* parameter indices the training loop updates
Indices == {0, 1}
\* gradient values handed to update (in units of 1.0)
GradValues == {0, 1, 2}
\* beta given to the constructor: 0, about 1/2, 1
BetaValues == {0, Scale \div 2, Scale}
\* learning_rate given to the constructor: 1.0 and about 1/2
LrValues == {Scale, Scale \div 2}
\* curv_win_width given to the constructor
WinArgs == (1..MaxWinArg) \cup {DefaultWinArg}

\* -------------------------------------------------------------- numerics
\* a non-finite float (nan or inf)
NaN == -1000000000

One == Scale

Min(a, b) == IF a <= b THEN a ELSE b

Max(a, b) == IF a >= b THEN a ELSE b

Abs(a) == IF a < 0 THEN -a ELSE a

FAdd(a, b) == IF a = NaN \/ b = NaN THEN NaN ELSE a + b

FSub(a, b) == IF a = NaN \/ b = NaN THEN NaN ELSE a - b

FNeg(a) == IF a = NaN THEN NaN ELSE -a

FMul(a, b) == IF a = NaN \/ b = NaN THEN NaN ELSE (a * b) \div Scale

\* x / 0 is nan or inf: non-finite either way
FDiv(a, b) ==
  IF a = NaN \/ b = NaN \/ b = 0 THEN NaN
  ELSE IF b < 0 THEN ((-a) * Scale) \div (-b)
  ELSE (a * Scale) \div b

RECURSIVE ISqrt(_, _, _)
\* the largest y in lo..hi-1 with y * y <= n, given lo * lo <= n < hi * hi
ISqrt(n, lo, hi) ==
  IF hi - lo <= 1 THEN lo
  ELSE LET mid == (lo + hi) \div 2
       IN IF mid * mid <= n THEN ISqrt(n, mid, hi) ELSE ISqrt(n, lo, mid)

\* np.sqrt / math.sqrt of a non-negative number
FSqrt(x) == IF x = NaN THEN NaN ELSE ISqrt(x * Scale, 0, Max(x, Scale) + 1)

RECURSIVE FPow(_, _)
\* beta ** n
FPow(b, n) == IF n = 0 THEN One ELSE FMul(b, FPow(b, n - 1))

RECURSIVE SeqMin(_)
SeqMin(s) == IF Len(s) = 1 THEN s[1] ELSE Min(s[1], SeqMin(Tail(s)))

RECURSIVE SeqMax(_)
SeqMax(s) == IF Len(s) = 1 THEN s[1] ELSE Max(s[1], SeqMax(Tail(s)))

\* ------------------------------------------------------------ StatTracker
\* beta*old + (1-beta)*sample
Ema(beta, old, sample) == FAdd(FMul(beta, old), FMul(FSub(One, beta), sample))

\* mx.ndarray.norm of a one-element gradient
Norm(g) == Abs(g)

\* curv_win[self._iter % self.curv_win_width] = ... is inside the allocated array
SlotInRange(win, it) == (it % curv_win_width) + 1 <= Len(win)

\* curv_win with the slot of this step overwritten by grad_norm ** 2
WriteSlot(win, it, g) ==
  [win EXCEPT ![(it % curv_win_width) + 1] = FMul(Norm(g), Norm(g))]

\* curv_win[:valid_end]: a numpy slice stops at the end of the array
ValidSlice(win, it) ==
  LET valid_end == Min(curv_win_width, it + 1)
  IN SubSeq(win, 1, Min(valid_end, Len(win)))

\* the variant with .min() and .max() exchanged
curvature_range_swapped(beta, win, hmin, hmax, it, g) ==
  LET w == WriteSlot(win, it, g)
      sl == ValidSlice(w, it)
  IN [window |-> w,
      h_min |-> Ema(beta, hmin, SeqMax(sl)),
      h_max |-> Ema(beta, hmax, SeqMin(sl))]

\* curvature_range, on a step whose slot is inside the array
curvature_range(beta, win, hmin, hmax, it, g) ==
  LET w == WriteSlot(win, it, g)
      sl == ValidSlice(w, it)
  IN [window |-> w,
      h_min |-> Ema(beta, hmin, SeqMin(sl)),
      h_max |-> Ema(beta, hmax, SeqMax(sl))]

zero_debias_factor(zb, beta, it) ==
  IF zb THEN One ELSE FSub(One, FPow(beta, it + 1))

\* grad_variance: the new grad_avg, grad_avg_squared and the returned grad_var
grad_variance(zb, beta, it, g, gavg, gavgsq) ==
  LET ga == Ema(beta, gavg, g)
      gas == Ema(beta, gavgsq, FMul(g, g))
      debias == zero_debias_factor(zb, beta, it)
  IN [grad_avg |-> ga,
      grad_avg_squared |-> gas,
      C |-> FAdd(FDiv(FMul(ga, ga), FNeg(FMul(debias, debias))),
                 FDiv(Norm(g), debias))]

\* dist_to_opt: the three averages and the returned distance
dist_to_opt(zb, beta, it, g, gna, havg, dist) ==
  LET n == Norm(g)
      gna1 == Ema(beta, gna, n)
      havg1 == Ema(beta, havg, FMul(n, n))
      dist1 == FAdd(FMul(beta, dist),
                    FDiv(FMul(FSub(One, beta), gna1), havg1))
  IN [grad_norm_avg |-> gna1,
      h_avg |-> havg1,
      dist_to_opt_avg |-> dist1,
      D |-> FDiv(dist1, zero_debias_factor(zb, beta, it))]

\* ----------------------------------------------------------- TuningSolver
\* coef[2] = -(3 + D**2 * h_min**2 / 2.0 / C)
Coef2(C, D, hmin) ==
  FNeg(FAdd(3 * One,
            FDiv(FDiv(FMul(FMul(D, D), FMul(hmin, hmin)), 2 * One), C)))

\* the sign of -x^3 + 3x^2 + p2*x + 1 at x = X / Scale >= 0, exactly:
\* Scale^3 times the polynomial is X * A + Scale^3 with A as below
PolySign(P, X) ==
  LET A == X * (3 * One - X) + P * Scale
      cube == Scale * Scale * Scale
  IN IF X = 0 \/ A >= 0 THEN 1
     ELSE IF -A >= (cube + X - 1) \div X THEN -1
     ELSE 1

RECURSIVE RootBisect(_, _, _)
\* the polynomial is positive at lo and not at hi: the grid point just above
\* its sign change
RootBisect(P, lo, hi) ==
  IF hi - lo <= 1 THEN hi
  ELSE LET mid == (lo + hi) \div 2
       IN IF PolySign(P, mid) > 0 THEN RootBisect(P, mid, hi)
          ELSE RootBisect(P, lo, mid)

\* np.roots([-1, 3, p2, 1]): the real root the cubic has at some x > 0, then
\* the other two from the quadratic left after dividing it out
\* (their sum is 3 - r1 and their product 1 / r1)
np_roots(P) ==
  LET r1 == RootBisect(P, 0, 4 * One + Abs(P))
      sum2 == 3 * One - r1
      prod2 == FDiv(One, r1)
      disc == FMul(sum2, sum2) - 4 * prod2
  IN IF disc < 0
     THEN LET im == FSqrt(-disc) \div 2
          IN << [re |-> r1, im |-> 0],
                [re |-> sum2 \div 2, im |-> im],
                [re |-> sum2 \div 2, im |-> -im] >>
     ELSE LET sq == FSqrt(disc)
          IN << [re |-> r1, im |-> 0],
                [re |-> (sum2 + sq) \div 2, im |-> 0],
                [re |-> (sum2 - sq) \div 2, im |-> 0] >>

\* np.real(roots) > 0.0, np.real(roots) < 1.0, np.imag(roots) < 1e-5
RootFilter(z) == z.re > 0 /\ z.re < One /\ z.im * ImagTolInv < Scale

\* Python's max(a, b): b only when b > a
PyMax(a, b) == IF a = NaN \/ b = NaN THEN a ELSE Max(a, b)

\* single_step_mu_lr: err is the exception raised, "none" when it returns
single_step_mu_lr(C, D, hmin, hmax) ==
  LET p2 == Coef2(C, D, hmin)
  IN IF p2 = NaN
     THEN [err |-> "LinAlgError", mu |-> 0, lr |-> 0]
     ELSE LET root == SelectSeq(np_roots(p2), RootFilter)
          IN IF Len(root) # 1
             THEN [err |-> "AssertionError", mu |-> 0, lr |-> 0]
             ELSE LET dr == FDiv(hmax, hmin)
                      sq == FSqrt(dr)
                      hb == FDiv(FSub(sq, One), FAdd(sq, One))
                      mu_t == PyMax(FMul(root[1].re, root[1].re), FMul(hb, hb))
                      om == FSub(One, FSqrt(mu_t))
                  IN [err |-> "none",
                      mu |-> mu_t,
                      lr |-> FDiv(FMul(om, om), hmin)]

\* ------------------------------------------------------------------ state
VARIABLES
  curv_win_arg,         \* the constructor's curv_win_width argument
  beta,                 \* self.beta
  zero_bias,            \* self.zero_bias
  lr,                   \* self.lr, the base learning rate
  momentum,             \* self.momentum
  lr_mult,              \* self.lr_mult: index -> multiplier, for the indices set
  _iter,                \* self._iter
  _h_min,               \* self._h_min
  _h_max,               \* self._h_max
  _h_window,            \* self._h_window
  _grad_norm_avg,       \* self._grad_norm_avg
  _h_avg,               \* self._h_avg
  _dist_to_opt_avg,     \* self._dist_to_opt_avg
  grad_avg,             \* state[1] of each index
  grad_avg_squared,     \* state[2] of each index
  applied,              \* the arguments of the last sgd_mom_update / sgd_update call
  solved,               \* the arguments and outcome of the last single_step_mu_lr call
  raised,               \* the exception the last update call ended with, or "none"
  calls,                \* update calls made
  returned,             \* update calls that returned
  grads                 \* grad_norm ** 2 of each update call that returned

config == <<curv_win_arg, beta, zero_bias, lr>>

tuning == <<momentum, lr_mult, _h_min, _h_max, _h_window,
            _grad_norm_avg, _h_avg, _dist_to_opt_avg>>

vars == <<curv_win_arg, beta, zero_bias, lr, momentum, lr_mult, _iter,
          _h_min, _h_max, _h_window, _grad_norm_avg, _h_avg, _dist_to_opt_avg,
          grad_avg, grad_avg_squared, applied, solved, raised, calls, returned,
          grads>>

NoCall == [op |-> "none", index |-> 0, lr |-> 0, momentum |-> 0]

NoSolve == [called |-> FALSE, C |-> 0, D |-> 0, h_min |-> 0, h_max |-> 0,
            err |-> "none", mu |-> 0, lr |-> 0]

\* __init__ with momentum=0.0 (its default), and create_state for every index
Init ==
  /\ curv_win_arg \in WinArgs
  /\ beta \in BetaValues
  /\ zero_bias \in BOOLEAN
  /\ lr \in LrValues
  /\ momentum = 0
  /\ lr_mult = << >>
  /\ _iter = 0
  /\ _h_min = 0
  /\ _h_max = 0
  /\ _h_window = [k \in 1..curv_win_arg |-> 0]
  /\ _grad_norm_avg = 0
  /\ _h_avg = 0
  /\ _dist_to_opt_avg = 0
  /\ grad_avg = [i \in Indices |-> 0]
  /\ grad_avg_squared = [i \in Indices |-> 0]
  /\ applied = NoCall
  /\ solved = NoSolve
  /\ raised = "none"
  /\ calls = 0
  /\ returned = 0
  /\ grads = << >>

\* Optimizer._get_lr(index): self.lr times the index's multiplier, if it has one
_get_lr(index) ==
  IF index \in DOMAIN lr_mult THEN FMul(lr, lr_mult[index]) ELSE lr

\* Optimizer.set_lr_mult({index: v}): the dictionary is rebuilt from its argument
set_lr_mult(index, v) == [j \in {index} |-> v]

\* kwargs['momentum'] is set only if self.momentum > 0; the update's default is 0
KwMomentum == IF momentum > 0 THEN momentum ELSE 0

\* what after_apply computes from the state before it, when the slot is in range
Tuned(index, g, lr0, mom0) ==
  LET cr == curvature_range(beta, _h_window, _h_min, _h_max, _iter, g)
      gv == grad_variance(zero_bias, beta, _iter, g,
                          grad_avg[index], grad_avg_squared[index])
      dd == dist_to_opt(zero_bias, beta, _iter, g,
                        _grad_norm_avg, _h_avg, _dist_to_opt_avg)
      sol == single_step_mu_lr(gv.C, dd.D, cr.h_min, cr.h_max)
  IN [cr |-> cr, gv |-> gv, dd |-> dd, sol |-> sol,
      momentum |-> Ema(beta, mom0, sol.mu),
      lr_mult |-> Ema(beta, lr0, sol.lr)]

\* the part of after_apply that runs before single_step_mu_lr returns or raises
Observe(index, g, t) ==
  /\ _h_window' = t.cr.window
  /\ _h_min' = t.cr.h_min
  /\ _h_max' = t.cr.h_max
  /\ grad_avg' = [grad_avg EXCEPT ![index] = t.gv.grad_avg]
  /\ grad_avg_squared' = [grad_avg_squared EXCEPT ![index] = t.gv.grad_avg_squared]
  /\ _grad_norm_avg' = t.dd.grad_norm_avg
  /\ _h_avg' = t.dd.h_avg
  /\ _dist_to_opt_avg' = t.dd.dist_to_opt_avg
  /\ solved' = [called |-> TRUE, C |-> t.gv.C, D |-> t.dd.D,
                h_min |-> t.cr.h_min, h_max |-> t.cr.h_max,
                err |-> t.sol.err, mu |-> t.sol.mu, lr |-> t.sol.lr]

\* update with a state, every step of it succeeding
UpdateTuned(index, g) ==
  LET lr0 == _get_lr(index)
      t == Tuned(index, g, lr0, momentum)
  IN /\ calls < MaxCalls
     /\ SlotInRange(_h_window, _iter)
     /\ t.sol.err = "none"
     /\ calls' = calls + 1
     /\ applied' = [op |-> "sgd_mom_update", index |-> index,
                    lr |-> lr0, momentum |-> KwMomentum]
     /\ Observe(index, g, t)
     /\ momentum' = t.momentum
     /\ lr_mult' = set_lr_mult(index, t.lr_mult)
     /\ _iter' = _iter + 1
     /\ raised' = "none"
     /\ returned' = returned + 1
     /\ grads' = Append(grads, FMul(Norm(g), Norm(g)))
     /\ UNCHANGED config

\* update with a state, single_step_mu_lr raising
UpdateSolveFails(index, g) ==
  LET lr0 == _get_lr(index)
      t == Tuned(index, g, lr0, momentum)
  IN /\ calls < MaxCalls
     /\ SlotInRange(_h_window, _iter)
     /\ t.sol.err # "none"
     /\ calls' = calls + 1
     /\ applied' = [op |-> "sgd_mom_update", index |-> index,
                    lr |-> lr0, momentum |-> KwMomentum]
     /\ Observe(index, g, t)
     /\ raised' = t.sol.err
     /\ UNCHANGED <<config, momentum, lr_mult, _iter, returned, grads>>

\* update with a state, the write into curv_win raising IndexError
UpdateIndexError(index, g) ==
  /\ calls < MaxCalls
  /\ ~SlotInRange(_h_window, _iter)
  /\ calls' = calls + 1
  /\ applied' = [op |-> "sgd_mom_update", index |-> index,
                 lr |-> _get_lr(index), momentum |-> KwMomentum]
  /\ raised' = "IndexError"
  /\ UNCHANGED <<config, tuning, _iter, grad_avg, grad_avg_squared, solved,
                 returned, grads>>

\* the variant of the plain path that goes on to after_apply, as the momentum
\* path does
UpdatePlain_tunes(index, g) ==
  LET lr0 == _get_lr(index)
      t == Tuned(index, g, lr0, momentum)
  IN /\ calls < MaxCalls
     /\ SlotInRange(_h_window, _iter)
     /\ t.sol.err = "none"
     /\ calls' = calls + 1
     /\ applied' = [op |-> "sgd_update", index |-> index,
                    lr |-> lr0, momentum |-> KwMomentum]
     /\ Observe(index, g, t)
     /\ momentum' = t.momentum
     /\ lr_mult' = set_lr_mult(index, t.lr_mult)
     /\ _iter' = _iter + 1
     /\ raised' = "none"
     /\ returned' = returned + 1
     /\ grads' = Append(grads, FMul(Norm(g), Norm(g)))
     /\ UNCHANGED config

\* the variant of the plain path that forgets self._iter += 1
UpdatePlain_noinc(index, g) ==
  /\ calls < MaxCalls
  /\ calls' = calls + 1
  /\ applied' = [op |-> "sgd_update", index |-> index,
                 lr |-> _get_lr(index), momentum |-> KwMomentum]
  /\ raised' = "none"
  /\ returned' = returned + 1
  /\ grads' = Append(grads, FMul(Norm(g), Norm(g)))
  /\ UNCHANGED <<config, tuning, _iter, grad_avg, grad_avg_squared, solved>>

\* update with state None: sgd_update, then self._iter += 1
UpdatePlain(index, g) ==
  /\ calls < MaxCalls
  /\ calls' = calls + 1
  /\ applied' = [op |-> "sgd_update", index |-> index,
                 lr |-> _get_lr(index), momentum |-> KwMomentum]
  /\ _iter' = _iter + 1
  /\ raised' = "none"
  /\ returned' = returned + 1
  /\ grads' = Append(grads, FMul(Norm(g), Norm(g)))
  /\ UNCHANGED <<config, tuning, grad_avg, grad_avg_squared, solved>>

Next ==
  \E index \in Indices, gv \in GradValues :
    \/ UpdateTuned(index, gv * Scale)
    \/ UpdateSolveFails(index, gv * Scale)
    \/ UpdateIndexError(index, gv * Scale)
    \/ UpdatePlain(index, gv * Scale)

Spec == Init /\ [][Next]_vars

\* ----------------------------------------------------------------- claims
\* an update call was made in this step
IsCall == calls' = calls + 1

\* the index whose update last refreshed the tuning
TunedIndex == CHOOSE j \in DOMAIN lr_mult : TRUE

\* C1: after N update calls that returned, with window width W as given to the
\* constructor, the window holds the squared gradient norms of the last
\* min(N, W) calls, each in the slot of its step
C1_WindowHoldsLastSamples ==
  LET N == returned
      W == curv_win_arg
      m == Min(N, W)
  IN /\ Len(grads) = N
     /\ \A c \in (N - m)..(N - 1) : _h_window[(c % W) + 1] = grads[c + 1]

\* C2: once curvature_range has run, h_min <= h_max
C2_HMinLeHMax == solved.called => _h_min <= _h_max

\* C2 witness: curvature_range has run and the two averages differ
C2_Witness == solved.called /\ 0 < _h_min /\ _h_min < _h_max

\* C3: every update call applies its weight update with the momentum of the
\* state before the call and with the learning rate of the tuned pair of the
\* state before the call (the base learning rate and momentum 0 before any tuning)
C3_UpdateUsesPreviousPair ==
  [][IsCall =>
       /\ applied'.momentum = momentum
       /\ applied'.lr = (IF DOMAIN lr_mult = {} THEN lr
                         ELSE lr_mult[TunedIndex])]_vars

\* C4: an update call on the plain SGD path leaves momentum, the learning-rate
\* multipliers, the curvature window and the five averages unchanged; momentum
\* and the multipliers change only in a call that made a momentum-buffer update
C4_PlainPathSkipsTuning ==
  [][/\ (IsCall /\ applied'.op = "sgd_update") => UNCHANGED tuning
     /\ (momentum' # momentum \/ lr_mult' # lr_mult)
          => (IsCall /\ applied'.op = "sgd_mom_update")]_vars

\* C4 witness: a plain-path call made after the tuner has set momentum and a
\* multiplier
C4_Witness ==
  /\ applied.op = "sgd_update"
  /\ momentum > 0
  /\ DOMAIN lr_mult # {}
  /\ _h_max > 0

\* C5: once some update has refreshed the tuning, the next update call, for
\* whatever index, applies the refreshed momentum and the refreshed learning
\* rate (the one the refreshing index reads)
C5_TuningSharedByAllIndices ==
  [][(IsCall /\ DOMAIN lr_mult # {}) =>
       /\ applied'.momentum = momentum
       /\ applied'.lr = _get_lr(TunedIndex)]_vars

\* the filter the claim C6 describes: real part in (0, 1), |imag| < 1e-5
ClaimedFilter(z) ==
  z.re > 0 /\ z.re < One /\ Abs(z.im) * ImagTolInv < Scale

\* C6: single_step_mu_lr returns a pair exactly when one root of the cubic has
\* its real part in (0, 1) and |imag| < 1e-5, and raises otherwise
C6_ReturnsIffOneRootAccepted ==
  solved.called =>
    LET p2 == Coef2(solved.C, solved.D, solved.h_min)
    IN (solved.err = "none")
         <=> (p2 # NaN /\ Len(SelectSeq(np_roots(p2), ClaimedFilter)) = 1)

\* C7: an update call that reaches single_step_mu_lr with h_min = 0 ends in an
\* error and leaves the global tuning state as it was before the call
C7_ZeroHMinFailsCleanly ==
  [][(IsCall /\ applied'.op = "sgd_mom_update" /\ raised' # "IndexError"
        /\ solved'.h_min = 0) =>
       /\ raised' # "none"
       /\ UNCHANGED <<tuning, _iter>>]_vars

C9_TunedValuesSmoothed ==
  [][(IsCall /\ applied'.op = "sgd_mom_update" /\ raised' = "none") =>
       LET i == applied'.index
           old_mult == IF i \in DOMAIN lr_mult THEN lr_mult[i] ELSE One
       IN /\ momentum' = Ema(beta, momentum, solved'.mu)
          /\ lr_mult'[i] = Ema(beta, old_mult, solved'.lr)
          /\ FMul(lr, lr_mult'[i]) = Ema(beta, applied'.lr, solved'.lr)]_vars

\* C10: at every step count the slot curvature_range writes is
\* step_count mod W, W the constructor's curv_win_width, it lies inside the
\* allocated window, valid_end does not exceed the allocated length, and no
\* access of the window has failed
C10_SlotInsideWindow ==
  /\ _iter % curv_win_width = _iter % curv_win_arg
  /\ SlotInRange(_h_window, _iter)
  /\ Min(curv_win_width, _iter + 1) <= Len(_h_window)
  /\ raised # "IndexError"

====
